---- MODULE Spec2Model ----
(***************************************************************************)
(* Invoice financial state and payment application engine of dp_backend:   *)
(* facturas/models.py (Factura), pagos/models.py (Pago) and the handlers   *)
(* that write them.                                                        *)
(*                                                                         *)
(* The pagos table is a bag of rows: the primary key of a Pago is only     *)
(* used by exclude(pk=self.pk), which is "the other rows", so a row is     *)
(* identified by its fields and two equal rows are two copies in the bag.  *)
(* Dates are day numbers; amounts are integers (units of currency).        *)
(* The fecha_pago of a Pago is not part of this state.                      *)
(*                                                                         *)
(* The codigo of a Pago is kept in a second view of the same table, filas: *)
(* the rows in the order of their primary keys, each with its factura,     *)
(* codigo, estado and notas. The requests of SpecCodigo write that view;   *)
(* the requests of the other specifications write the view without codigo. *)
(*                                                                         *)
(* The facturas of the payment engine exist from the start. Creation,      *)
(* import and deletion of facturas are kept in a table of their own, libro, *)
(* by numero_factura, each factura with its two dates, its valor_total and *)
(* the estados of the payments attached to it; the requests of SpecLibro   *)
(* write it.                                                               *)
(*                                                                         *)
(* The Alerta table is alertas, its rows in the order of their primary    *)
(* keys, each with its factura, its usuario_destinatario and its estado;   *)
(* the only TipoAlerta is the one of tipo 'vencimiento'. The requests of   *)
(* SpecAlertas are the payment requests and the sweep together with the    *)
(* post_save handlers of alertas/signals.py, and the alert routes.         *)
(***************************************************************************)
EXTENDS Integers, FiniteSets, Sequences, Bags, TLC

VARIABLES facturas, pagos, hoy, ultima, enVuelo, filas, libro, barrido, alertas

vars == <<facturas, pagos, hoy, ultima, enVuelo, filas, libro, barrido, alertas>>

\* Bounds of the model.
MaxPagos == 2
MaxDia == 1
\* Number of primary keys the view with codigo ever assigns.
MaxFilas == 3
\* Payments attached to one factura of the table of facturas that come and go.
MaxAdjuntos == 1

\* Factura 1 is an FE of valor_total 2, factura 2 an R of valor_total 3.
\* Both have user 1 as vendedor; factura 1 has user 2 as distribuidor and
\* factura 2 has none (0).
FacturaIds == {1, 2}

\* Factura.ESTADOS, Factura.TIPOS_FACTURA, Pago.ESTADOS
ESTADOS_FACTURA == {"pendiente", "parcial", "pagada", "vencida", "cancelada"}
TIPOS_FACTURA == {"FE", "R"}
ESTADOS_PAGO == {"registrado", "confirmado", "anulado"}

\* Amounts a request may carry: <<valor_pagado, descuento, ica, retencion, nota>>.
Montos ==
    { <<1, 0, 0, 0, 0>>, <<0, 1, 0, 0, 0>>, <<0, 0, 1, 0, 0>>,
      <<0, 0, 0, 1, 0>>, <<1, 0, 0, 0, 1>>, <<0, 0, 0, 0, 0>> }

\* Amounts with a negative component, next to the ones above.
MontosConSigno ==
    Montos \cup { <<-1, 2, 0, 0, 0>>, <<1, -1, 0, 0, 0>>, <<2, 0, 0, 0, -1>> }

\* A Pago instance built from a request, in its default estado.
\* The amounts that move the balance by cash or by descuento.
MontosSaldo == {<<1, 0, 0, 0, 0>>, <<0, 1, 0, 0, 0>>}

\* Amounts that always carry cash.
MontosCaja == {<<1, 0, 0, 0, 0>>, <<1, 0, 0, 0, 1>>}

\* Cash, cash with a nota, and ICA.
MontosRegistro == {<<1, 0, 0, 0, 0>>, <<1, 0, 0, 0, 1>>, <<0, 0, 1, 0, 0>>}

\* A new Pago. Of the four fields a PATCH can write (fecha_pago, tipo_pago,
\* numero_comprobante, notas) the row keeps notas, 0 until it is edited.
NuevoPago(f, m) ==
    [factura |-> f, valor_pagado |-> m[1], descuento |-> m[2], ica |-> m[3],
     retencion |-> m[4], nota |-> m[5], estado |-> "registrado", notas |-> 0]

Nulo == [factura |-> 0]

----------------------------------------------------------------------------
(* Aggregates over the pagos table *)

RECURSIVE SumaCampo(_, _, _)
\* aggregate(total=Sum(campo)) or Decimal('0.00') over the rows of bag B
\* whose distinct values are S.
SumaCampo(S, B, campo) ==
    IF S = {} THEN 0
    ELSE LET r == CHOOSE x \in S : TRUE
         IN  r[campo] * CopiesIn(r, B) + SumaCampo(S \ {r}, B, campo)

Suma(B, campo) == SumaCampo(BagToSet(B), B, campo)

\* factura.pagos.filter(estado='confirmado')
PagosConfirmados(P, f) ==
    LET S == {r \in BagToSet(P) : r.factura = f /\ r.estado = "confirmado"}
    IN  [r \in S |-> CopiesIn(r, P)]

total_pagado(P, f) == Suma(PagosConfirmados(P, f), "valor_pagado")

total_descuentos(P, f) ==
    LET conf == PagosConfirmados(P, f)
    IN  Suma(conf, "descuento") + Suma(conf, "ica")
          + Suma(conf, "retencion") + Suma(conf, "nota")

total_aplicado(P, f) == total_pagado(P, f) + total_descuentos(P, f)

saldo_pendiente(F, P, f) == F[f].valor_total - total_aplicado(P, f)

----------------------------------------------------------------------------
(* Factura: derived state and recomputation *)

\* esta_vencida without 'parcial' in the list of estados.
esta_vencida_sin_parcial(fac, dia) ==
    dia > fac.fecha_vencimiento /\ fac.estado \in {"pendiente", "vencida"}

esta_vencida(fac, dia) ==
    dia > fac.fecha_vencimiento /\ fac.estado \in {"pendiente", "parcial", "vencida"}

\* The estado that actualizar_estado assigns to factura f.
EstadoCalculado(F, P, f, dia) ==
    IF saldo_pendiente(F, P, f) <= 0 THEN "pagada"
    ELSE IF total_pagado(P, f) > 0
         THEN IF esta_vencida(F[f], dia) THEN "vencida" ELSE "parcial"
         ELSE IF esta_vencida(F[f], dia) THEN "vencida" ELSE "pendiente"

\* actualizar_estado: the facturas table after the call (the row is saved
\* only when the estado changed, which leaves the same table).
actualizar_estado(F, P, f, dia) ==
    [F EXCEPT ![f].estado = EstadoCalculado(F, P, f, dia)]

\* The queryset with 'vencida' among the selected estados.
facturas_a_vencer_con_vencidas(F, dia) ==
    {f \in FacturaIds :
        /\ F[f].fecha_vencimiento < dia
        /\ F[f].estado \in {"pendiente", "parcial", "vencida"}}

\* The queryset of actualizar_estados_vencidas.
facturas_a_vencer(F, dia) ==
    {f \in FacturaIds :
        /\ F[f].fecha_vencimiento < dia
        /\ F[f].estado \in {"pendiente", "parcial"}
        /\ F[f].estado # "vencida"}

\* actualizar_estados_vencidas: the table after the loop and the returned count.
actualizar_estados_vencidas(F, P, dia) ==
    LET sel == facturas_a_vencer(F, dia)
    IN  [facturas |-> [f \in FacturaIds |->
                         IF f \in sel THEN actualizar_estado(F, P, f, dia)[f] ELSE F[f]],
         count |-> Cardinality(sel)]

----------------------------------------------------------------------------
(* Pago: validation and persistence *)

Uno(p) == SetToBag({p})

\* The table without the row of the instance: exclude(pk=self.pk).
\* A new instance (previo = Nulo) has no row yet.
SinFila(P, previo) == IF previo = Nulo THEN P ELSE P (-) Uno(previo)

aplicado_nuevo(p) == p.valor_pagado + p.descuento + p.ica + p.retencion + p.nota

\* ya_ica filtering on the retencion column.
ya_ica_mira_retencion(otros, f) ==
    \E r \in BagToSet(PagosConfirmados(otros, f)) : r.retencion > 0

\* ya_ica / ya_rete of Pago.clean, over the other rows of the factura.
ya_ica(otros, f) == \E r \in BagToSet(PagosConfirmados(otros, f)) : r.ica > 0

ya_rete(otros, f) == \E r \in BagToSet(PagosConfirmados(otros, f)) : r.retencion > 0

\* The ceiling test never raising.
excede_saldo_nunca(p, F, otros) == FALSE

\* The ceiling test summing only valor_pagado of the existing rows.
excede_saldo_solo_pagado(p, F, otros) ==
    Suma(PagosConfirmados(otros, p.factura), "valor_pagado") + aplicado_nuevo(p)
      > F[p.factura].valor_total

\* The ceiling test of Pago.clean: total_aplicado > saldo_actual.
excede_saldo(p, F, otros) ==
    LET existentes == PagosConfirmados(otros, p.factura)
        total_pagado_existente == Suma(existentes, "valor_pagado")
        total_descuentos_existentes ==
            Suma(existentes, "descuento") + Suma(existentes, "ica")
              + Suma(existentes, "retencion") + Suma(existentes, "nota")
    IN  total_pagado_existente + total_descuentos_existentes + aplicado_nuevo(p)
          > F[p.factura].valor_total

\* Pago.clean testing the ceiling whatever the estado of the instance.
Pago_clean_tope_siempre(p, F, otros) ==
    IF p.descuento < 0 \/ p.ica < 0 \/ p.retencion < 0 \/ p.nota < 0
      THEN "negativo"
    ELSE IF aplicado_nuevo(p) <= 0
      THEN "sin_valor"
    ELSE IF (p.ica > 0 \/ p.retencion > 0) /\ F[p.factura].tipo # "FE"
      THEN "solo_FE"
    ELSE IF (p.ica > 0 \/ p.retencion > 0) /\ ya_ica(otros, p.factura) /\ p.ica > 0
      THEN "ica_repetido"
    ELSE IF (p.ica > 0 \/ p.retencion > 0) /\ ya_rete(otros, p.factura) /\ p.retencion > 0
      THEN "retencion_repetida"
    ELSE IF excede_saldo(p, F, otros)
      THEN "excede_saldo"
    ELSE "ok"

\* Pago.clean: "ok" or the validation error it raises.
Pago_clean(p, F, otros) ==
    IF p.descuento < 0 \/ p.ica < 0 \/ p.retencion < 0 \/ p.nota < 0
      THEN "negativo"
    ELSE IF aplicado_nuevo(p) <= 0
      THEN "sin_valor"
    ELSE IF (p.ica > 0 \/ p.retencion > 0) /\ F[p.factura].tipo # "FE"
      THEN "solo_FE"
    ELSE IF (p.ica > 0 \/ p.retencion > 0) /\ ya_ica(otros, p.factura) /\ p.ica > 0
      THEN "ica_repetido"
    ELSE IF (p.ica > 0 \/ p.retencion > 0) /\ ya_rete(otros, p.factura) /\ p.retencion > 0
      THEN "retencion_repetida"
    ELSE IF p.estado = "confirmado" /\ excede_saldo(p, F, otros)
      THEN "excede_saldo"
    ELSE "ok"

\* A Pago whose codigo is None.
SinCodigo == << >>

\* Factura.numero_factura, "<tipo>-<digits>": the digits of factura f are f.
numero_factura(F, f) == <<F[f].tipo, f>>

\* self.factura.pagos.exclude(codigo__isnull=True), as primary keys of T.
filas_con_codigo(T, f) ==
    {pk \in 1..Len(T) :
        T[pk] # Nulo /\ T[pk].factura = f /\ T[pk].codigo # SinCodigo}

\* The codigo block of Pago.save without the test on self.codigo.
generar_codigo_siempre(codigo, f, F, T) ==
    <<numero_factura(F, f), Cardinality(filas_con_codigo(T, f)) + 1>>

\* The codigo block of Pago.save: the codigo the instance has after it,
\* f"{pref}-{count+1:03d}" kept as the pair of pref and count+1.
generar_codigo(codigo, f, F, T) ==
    IF codigo # SinCodigo
      THEN codigo
      ELSE <<numero_factura(F, f), Cardinality(filas_con_codigo(T, f)) + 1>>

\* Pago.save recomputing the factura whatever the estado of the instance.
Pago_save_recalcula_siempre(p, previo, F, P, dia) ==
    LET otros == SinFila(P, previo)
        res == Pago_clean(p, F, otros)
        P2 == otros (+) Uno(p)
    IN  IF res # "ok"
          THEN [res |-> res, pagos |-> P, facturas |-> F]
          ELSE [res |-> "ok", pagos |-> P2,
                facturas |-> actualizar_estado(F, P2, p.factura, dia)]

\* Pago.save of instance p whose stored row is previo (Nulo when new):
\* full_clean, write of the row, then the recomputation of the factura
\* when the instance is confirmado.
Pago_save(p, previo, F, P, dia) ==
    LET otros == SinFila(P, previo)
        res == Pago_clean(p, F, otros)
        P2 == otros (+) Uno(p)
    IN  IF res # "ok"
          THEN [res |-> res, pagos |-> P, facturas |-> F]
          ELSE [res |-> "ok", pagos |-> P2,
                facturas |-> IF p.estado = "confirmado"
                               THEN actualizar_estado(F, P2, p.factura, dia)
                               ELSE F]

\* Pago.delete: the row is removed, then the factura is recomputed.
Pago_delete(p, F, P, dia) ==
    LET P2 == P (-) Uno(p)
    IN  [pagos |-> P2, facturas |-> actualizar_estado(F, P2, p.factura, dia)]

\* PagoCreateSerializer.validate refusing only a negative total.
PagoCreateSerializer_validate_sin_cero(m, f, F) ==
    IF \E i \in 1..5 : m[i] < 0 THEN "negativo"
    ELSE IF m[1] + m[2] + m[4] + m[3] + m[5] < 0 THEN "sin_valor"
    ELSE IF F[f].estado = "cancelada" THEN "factura_cancelada"
    ELSE IF F[f].estado = "pagada" THEN "factura_pagada"
    ELSE "ok"

\* PagoCreateSerializer.validate
PagoCreateSerializer_validate(m, f, F) ==
    IF \E i \in 1..5 : m[i] < 0 THEN "negativo"
    ELSE IF m[1] + m[2] + m[4] + m[3] + m[5] <= 0 THEN "sin_valor"
    ELSE IF F[f].estado = "cancelada" THEN "factura_cancelada"
    ELSE IF F[f].estado = "pagada" THEN "factura_pagada"
    ELSE "ok"

\* The users that send requests: an id and the names of their groups.
GRUPOS == {"Gerente", "Vendedor", "Distribuidor", "Repartidor"}

Usuarios == [id : 1..3, grupos : SUBSET GRUPOS]

\* The role and assignment checks of PagoListCreateView.perform_create.
perform_create_permisos(u, fac) ==
    IF ~("Gerente" \in u.grupos \/ "Vendedor" \in u.grupos \/ "Repartidor" \in u.grupos)
      THEN "PermissionError"
    ELSE IF "Vendedor" \in u.grupos /\ fac.vendedor_id # u.id
      THEN "PermissionError"
    ELSE IF "Repartidor" \in u.grupos /\ fac.distribuidor_id # u.id
      THEN "PermissionError"
    ELSE "ok"

\* validar_usuario_puede_registrar_pago
validar_usuario_puede_registrar_pago(u, fac) ==
    IF "Gerente" \in u.grupos THEN "ok"
    ELSE IF "Vendedor" \in u.grupos /\ fac.vendedor_id = u.id THEN "ok"
    ELSE IF "Distribuidor" \in u.grupos /\ fac.distribuidor_id = u.id THEN "ok"
    ELSE "PermissionDenied"

\* crear_pago_para_factura: the permission check, then Pago.objects.create
\* with the keyword 'comprobante', which is not a field of Pago, so the
\* constructor raises TypeError and no row is written.
crear_pago_para_factura(u, f, m, F, P) ==
    IF validar_usuario_puede_registrar_pago(u, F[f]) # "ok"
      THEN [res |-> "PermissionDenied", pagos |-> P]
      ELSE [res |-> "TypeError", pagos |-> P]

\* validate_estado that lets every estado through.
validate_estado_sin_saldo(F, P, f, value) == "ok"

\* FacturaUpdateSerializer.validate_estado
validate_estado(F, P, f, value) ==
    IF value = "pagada" /\ saldo_pendiente(F, P, f) > 0 THEN "saldo_pendiente" ELSE "ok"

\* The table of facturas that are created, imported and deleted: the
\* numbers a request can name, and the data a request or a row of a file
\* can carry (fecha_emision, fecha_vencimiento, valor_total).
Numeros == {1, 2}

DatosFactura ==
    { <<0, 1, 1>>, <<0, 1, 2>>, <<1, 0, 1>>, <<0, 1, 0>>, <<0, 1, -1>> }

FacturaNueva(d) ==
    [fecha_emision |-> d[1], fecha_vencimiento |-> d[2], valor_total |-> d[3],
     pagos |-> << >>]

\* FacturaCreateSerializer: validate_numero_factura, then validate. A
\* valor_total of 0 is falsy, so its test is skipped.
FacturaCreateSerializer_validate(L, n, d) ==
    IF L[n] # Nulo THEN "numero_repetido"
    ELSE IF d[2] < d[1] THEN "fechas"
    ELSE IF d[3] # 0 /\ d[3] <= 0 THEN "valor_total"
    ELSE "ok"

\* FacturaDetailView.perform_destroy that does not look at the pagos.
perform_destroy_sin_pagos(L, gerente, n) ==
    IF ~gerente THEN [res |-> "PermissionDenied", libro |-> L]
    ELSE [res |-> "ok", libro |-> [L EXCEPT ![n] = Nulo]]

\* FacturaDetailView.perform_destroy
perform_destroy(L, gerente, n) ==
    IF ~gerente THEN [res |-> "PermissionDenied", libro |-> L]
    ELSE IF L[n].pagos # << >> THEN [res |-> "ValueError", libro |-> L]
    ELSE [res |-> "ok", libro |-> [L EXCEPT ![n] = Nulo]]

\* The body of the loop of confirmar_importacion_facturas that updates a
\* factura whatever its pagos.
importar_fila_sin_pagos(L, fila) ==
    LET n == fila[1]
        d == fila[2]
    IN  IF L[n] # Nulo
          THEN [error |-> 0,
                libro |-> [L EXCEPT ![n] = [@ EXCEPT !.fecha_emision = d[1],
                                                      !.fecha_vencimiento = d[2],
                                                      !.valor_total = d[3]]]]
          ELSE [error |-> 0, libro |-> [L EXCEPT ![n] = FacturaNueva(d)]]

\* The body of the loop of confirmar_importacion_facturas for one row
\* <<numero, datos>>: a factura with pagos gives a row error, one without
\* is overwritten and saved, a new number is created.
importar_fila(L, fila) ==
    LET n == fila[1]
        d == fila[2]
    IN  IF L[n] # Nulo
          THEN IF L[n].pagos # << >>
                 THEN [error |-> 1, libro |-> L]
                 ELSE [error |-> 0,
                       libro |-> [L EXCEPT ![n] = [@ EXCEPT !.fecha_emision = d[1],
                                                             !.fecha_vencimiento = d[2],
                                                             !.valor_total = d[3]]]]
          ELSE [error |-> 0, libro |-> [L EXCEPT ![n] = FacturaNueva(d)]]

\* confirmar_importacion_facturas: the rows of the file in order; the
\* errors are collected and the rows that follow are still processed.
RECURSIVE confirmar_importacion_facturas(_, _)
confirmar_importacion_facturas(L, archivo) ==
    IF archivo = << >>
      THEN [errores |-> 0, libro |-> L]
      ELSE LET r == importar_fila(L, Head(archivo))
               s == confirmar_importacion_facturas(r.libro, Tail(archivo))
           IN  [errores |-> r.error + s.errores, libro |-> s.libro]

\* The files of one or two rows.
Archivos ==
    LET Filas == Numeros \X DatosFactura
    IN  {<<a>> : a \in Filas} \cup {<<a, b>> : a, b \in Filas}

----------------------------------------------------------------------------
(* State machine *)

----------------------------------------------------------------------------
(* Alertas: alertas/services.py and alertas/signals.py *)

\* The users of the group Gerente (ids as in Usuarios).
Gerentes == {3}

ESTADOS_ACTIVOS == {"nueva", "leida"}

\* _obtener_usuarios_destinatarios with no ConfiguracionAlerta row: the
\* Gerente group and the vendedor of the factura, without repetitions.
obtener_usuarios_destinatarios(F, f) == Gerentes \cup {F[f].vendedor_id}

\* Alerta.objects.filter(factura, usuario_destinatario, tipo_alerta,
\* estado__in=['nueva', 'leida']).exists()
existe_activa(A, f, u) ==
    \E i \in 1..Len(A) :
        A[i].factura = f /\ A[i].usuario = u /\ A[i].estado \in ESTADOS_ACTIVOS

\* Alerta.objects.create as both generators call it, with the keyword
\* 'subtipo'. Alerta declares no field of that name, so the constructor
\* raises TypeError before any row is written.
Alerta_objects_create(A, f, u) == [res |-> "TypeError", alertas |-> A]

\* generar_alerta_factura_especifica: for each recipient without an active
\* alert of the factura a row is created; the first creation that raises
\* ends the loop.
generar_alerta_factura_especifica(A, F, f) ==
    LET faltan == {u \in obtener_usuarios_destinatarios(F, f) : ~existe_activa(A, f, u)}
    IN  IF faltan = {}
          THEN [res |-> "ok", alertas |-> A]
          ELSE Alerta_objects_create(A, f, CHOOSE u \in faltan : \A w \in faltan : u <= w)

\* generar_alertas_vencimiento: the facturas due within 5 days or past due,
\* in estado pendiente, parcial or vencida, without an active alert; one
\* row per recipient of each.
generar_alertas_vencimiento(A, F, dia) ==
    LET sel == {f \in FacturaIds :
                  /\ F[f].fecha_vencimiento <= dia + 5
                  /\ F[f].estado \in {"pendiente", "parcial", "vencida"}
                  /\ ~\E i \in 1..Len(A) :
                        A[i].factura = f /\ A[i].estado \in ESTADOS_ACTIVOS}
    IN  IF sel = {}
          THEN [res |-> "ok", alertas |-> A]
          ELSE LET f == CHOOSE g \in sel : \A h \in sel : g <= h
                   us == obtener_usuarios_destinatarios(F, f)
               IN  Alerta_objects_create(A, f, CHOOSE u \in us : \A w \in us : u <= w)

\* post_save of Factura: a factura created past due, and any factura saved
\* with estado vencida, asks for its alert; an exception is logged.
generar_alertas_factura_cambios(A, F, f, created, dia) ==
    LET r == IF created /\ F[f].fecha_vencimiento < dia
               THEN generar_alerta_factura_especifica(A, F, f)
               ELSE [res |-> "ok", alertas |-> A]
    IN  IF r.res # "ok" THEN r.alertas
        ELSE IF F[f].estado = "vencida"
               THEN generar_alerta_factura_especifica(r.alertas, F, f).alertas
               ELSE r.alertas

\* post_save of Pago: when the row was created and the factura of the
\* instance is pagada, the active alerts of that factura become 'resuelta'.
generar_alertas_pago_realizado(A, F, p, created) ==
    IF created /\ F[p.factura].estado = "pagada"
      THEN [i \in 1..Len(A) |->
              IF A[i].factura = p.factura /\ A[i].estado \in ESTADOS_ACTIVOS
                THEN [A[i] EXCEPT !.estado = "resuelta"]
                ELSE A[i]]
      ELSE A

\* Pago.save with the handlers it fires: post_save of Pago inside
\* super().save(), with the factura as it was loaded, then post_save of
\* Factura when actualizar_estado saves a changed estado.
Pago_save_con_senales(p, previo, F, P, A, dia) ==
    LET s == Pago_save(p, previo, F, P, dia)
        A1 == generar_alertas_pago_realizado(A, F, p, previo = Nulo)
        A2 == IF s.facturas[p.factura].estado # F[p.factura].estado
                THEN generar_alertas_factura_cambios(A1, s.facturas, p.factura, FALSE, dia)
                ELSE A1
    IN  [res |-> s.res, pagos |-> s.pagos, facturas |-> s.facturas,
         alertas |-> IF s.res = "ok" THEN A2 ELSE A]

\* The post_save of Factura for each factura of the set S whose estado the
\* sweep changed, in the order of the loop.
RECURSIVE senales_del_barrido(_, _, _, _, _)
senales_del_barrido(A, F, F2, S, dia) ==
    IF S = {} THEN A
    ELSE LET f == CHOOSE g \in S : \A h \in S : g <= h
             A1 == IF F2[f].estado # F[f].estado
                     THEN generar_alertas_factura_cambios(A, F2, f, FALSE, dia)
                     ELSE A
         IN  senales_del_barrido(A1, F, F2, S \ {f}, dia)

\* ServicioAlertas.cambiar_estado_alerta by the recipient of the row.
cambiar_estado_alerta(A, pk, leida) ==
    IF pk \notin 1..Len(A) THEN [res |-> "404", alertas |-> A]
    ELSE [res |-> "ok",
          alertas |-> [A EXCEPT ![pk].estado = IF leida THEN "leida" ELSE "nueva"]]

\* AlertaUpdateSerializer.validate_estado
transiciones_permitidas(estado_actual) ==
    IF estado_actual = "nueva" THEN {"leida", "procesada", "descartada"}
    ELSE IF estado_actual = "leida" THEN {"procesada", "descartada"}
    ELSE {}

\* No sweep is between two of its statements.
SinBarrido == [fase |-> "inactivo"]

\* The response of the last request, kept for confirmations (outcome and
\* the Pago instance the confirmation was asked for), for sweeps (the
\* count returned) and for registrations refused for their amounts (the
\* error and the instance asked for); any other request leaves Otra.
Ultima(op, res, p, n) == [op |-> op, res |-> res, pago |-> p, n |-> n]

Otra == Ultima("otra", "ok", Nulo, 0)

FacturasIniciales ==
    [f \in FacturaIds |->
        [tipo |-> IF f % 2 = 1 THEN "FE" ELSE "R",
         vendedor_id |-> 1,
         distribuidor_id |-> IF f = 1 THEN 2 ELSE 0,
         fecha_vencimiento |-> 0,
         valor_total |-> 1 + f,
         estado |-> "pendiente"]]

Init ==
    /\ facturas = FacturasIniciales
    /\ pagos = EmptyBag
    /\ hoy = 0
    /\ ultima = Otra
    /\ enVuelo = EmptyBag
    /\ filas = << >>
    /\ libro = [n \in Numeros |-> Nulo]
    /\ barrido = SinBarrido
    /\ alertas = << >>

\* POST of a payment: serializer validation, then Pago.save of a new
\* instance in estado registrado.
RegistrarPago(f, m) ==
    /\ BagCardinality(pagos) < MaxPagos
    /\ LET v == PagoCreateSerializer_validate(m, f, facturas)
           s == Pago_save(NuevoPago(f, m), Nulo, facturas, pagos, hoy)
       IN  /\ pagos' = IF v # "ok" THEN pagos ELSE s.pagos
           /\ facturas' = IF v # "ok" THEN facturas ELSE s.facturas
           /\ ultima' = IF v \in {"negativo", "sin_valor"}
                           THEN Ultima("registrar", v, NuevoPago(f, m), 0)
                           ELSE Otra
    /\ UNCHANGED <<hoy, enVuelo, filas, libro, barrido, alertas>>

\* The same POST with its response kept whatever the outcome: the error of
\* the serializer, else the one of Pago.save, else "ok".
RegistrarPagoVisto(f, m) ==
    /\ BagCardinality(pagos) < MaxPagos
    /\ LET v == PagoCreateSerializer_validate(m, f, facturas)
           s == Pago_save(NuevoPago(f, m), Nulo, facturas, pagos, hoy)
       IN  /\ pagos' = IF v # "ok" THEN pagos ELSE s.pagos
           /\ facturas' = IF v # "ok" THEN facturas ELSE s.facturas
           /\ ultima' = Ultima("registrar", IF v # "ok" THEN v ELSE s.res,
                               NuevoPago(f, m), 0)
    /\ UNCHANGED <<hoy, enVuelo, filas, libro, barrido, alertas>>

\* The response of a POST on the list route, with the user that sent it.
UltimaPost(res, p, u) ==
    [op |-> "post", res |-> res, pago |-> p, n |-> 0, usuario |-> u]

\* POST on the list route of pagos by user u (PagoListCreateView.create):
\* serializer validation, the checks of perform_create, then
\* PagoCreateSerializer.create, which calls crear_pago_para_factura.
PagoListCreateView_post(u, f, m) ==
    /\ LET v == PagoCreateSerializer_validate(m, f, facturas)
           a == perform_create_permisos(u, facturas[f])
           c == crear_pago_para_factura(u, f, m, facturas, pagos)
       IN  /\ pagos' = IF v = "ok" /\ a = "ok" THEN c.pagos ELSE pagos
           /\ ultima' = UltimaPost(IF v # "ok" THEN v ELSE IF a # "ok" THEN a ELSE c.res,
                                    NuevoPago(f, m), u)
    /\ UNCHANGED <<facturas, hoy, enVuelo, filas, libro, barrido, alertas>>

\* Pago.save called on a new instance built from amounts m, with no
\* serializer in front of it: the validation is the one of the model.
GuardarPagoNuevo(f, m) ==
    /\ BagCardinality(pagos) < MaxPagos
    /\ LET s == Pago_save(NuevoPago(f, m), Nulo, facturas, pagos, hoy)
       IN  /\ pagos' = s.pagos
           /\ facturas' = s.facturas
           /\ ultima' = Otra
    /\ UNCHANGED <<hoy, enVuelo, filas, libro, barrido, alertas>>

\* Confirmation of a payment: terminal-state guard, estado := confirmado,
\* Pago.save.
confirmar_pago(p) ==
    /\ BagIn(p, pagos)
    /\ LET q == [p EXCEPT !.estado = "confirmado"]
           s == Pago_save(q, p, facturas, pagos, hoy)
       IN  IF p.estado # "registrado"
             THEN /\ UNCHANGED <<pagos, facturas, barrido, alertas>>
                  /\ ultima' = Ultima("confirmar", "estado_terminal", p, 0)
             ELSE /\ pagos' = s.pagos
                  /\ facturas' = s.facturas
                  /\ ultima' = Ultima("confirmar", s.res, p, 0)
    /\ UNCHANGED <<hoy, enVuelo, filas, libro, barrido, alertas>>

\* DELETE of a payment (PagoDetailView.perform_destroy by a Gerente).
EliminarPago(p) ==
    /\ BagIn(p, pagos)
    /\ LET s == Pago_delete(p, facturas, pagos, hoy)
       IN  /\ pagos' = s.pagos
           /\ facturas' = s.facturas
           /\ ultima' = Otra
    /\ UNCHANGED <<hoy, enVuelo, filas, libro, barrido, alertas>>

\* PATCH of a payment with estado among the writable fields.
ActualizarPago_con_estado(p) ==
    /\ BagIn(p, pagos)
    /\ \E e \in ESTADOS_PAGO :
          LET s == Pago_save([p EXCEPT !.estado = e], p, facturas, pagos, hoy)
          IN  /\ pagos' = s.pagos
              /\ facturas' = s.facturas
              /\ ultima' = Otra
    /\ UNCHANGED <<hoy, enVuelo, filas, libro, barrido, alertas>>

\* PATCH of a payment (PagoDetailView.perform_update): none of the fields
\* of PagoUpdateSerializer is part of this state, the save re-validates the
\* row and recomputes the factura of a confirmed payment.
ActualizarPago(p) ==
    /\ BagIn(p, pagos)
    /\ LET s == Pago_save(p, p, facturas, pagos, hoy)
       IN  /\ pagos' = s.pagos
           /\ facturas' = s.facturas
           /\ ultima' = Otra
    /\ UNCHANGED <<hoy, enVuelo, filas, libro, barrido, alertas>>

\* PATCH of a payment with valor_pagado among the writable fields.
PagoDetailView_patch_con_valor(p, n) ==
    /\ BagIn(p, pagos)
    /\ LET s == Pago_save([p EXCEPT !.notas = n, !.valor_pagado = n], p,
                          facturas, pagos, hoy)
       IN  /\ pagos' = s.pagos
           /\ facturas' = s.facturas
           /\ ultima' = Ultima("actualizar", s.res, p, n)
    /\ UNCHANGED <<hoy, enVuelo, filas, libro, barrido, alertas>>

\* PATCH of the notas of a payment (PagoUpdateSerializer, then
\* PagoDetailView.perform_update by a user who may edit it): Pago.save of
\* the instance with the new notas. The response keeps the row as it was
\* and the notas sent.
PagoDetailView_patch(p, n) ==
    /\ BagIn(p, pagos)
    /\ LET s == Pago_save([p EXCEPT !.notas = n], p, facturas, pagos, hoy)
       IN  /\ pagos' = s.pagos
           /\ facturas' = s.facturas
           /\ ultima' = Ultima("actualizar", s.res, p, n)
    /\ UNCHANGED <<hoy, enVuelo, filas, libro, barrido, alertas>>

\* The management command actualizar_vencidas.
Barrido ==
    /\ LET s == actualizar_estados_vencidas(facturas, pagos, hoy)
       IN  /\ facturas' = s.facturas
           /\ ultima' = Ultima("barrido", "ok", Nulo, s.count)
    /\ UNCHANGED <<pagos, hoy, enVuelo, filas, libro, barrido, alertas>>

\* PATCH of the estado of a factura (FacturaDetailView): get_queryset
\* sweeps first, then validate_estado, then the save.
ActualizarFactura(f, value) ==
    /\ LET F1 == actualizar_estados_vencidas(facturas, pagos, hoy).facturas
           v == validate_estado(F1, pagos, f, value)
       IN  /\ facturas' = IF v = "ok" THEN [F1 EXCEPT ![f].estado = value] ELSE F1
           /\ ultima' = Otra
    /\ UNCHANGED <<pagos, hoy, enVuelo, filas, libro, barrido, alertas>>

\* The same PATCH with its response kept: the outcome of validate_estado and
\* the factura the request named.
FacturaDetailView_patch(f, value) ==
    /\ LET F1 == actualizar_estados_vencidas(facturas, pagos, hoy).facturas
           v == validate_estado(F1, pagos, f, value)
       IN  /\ facturas' = IF v = "ok" THEN [F1 EXCEPT ![f].estado = value] ELSE F1
           /\ ultima' = Ultima("patch", v, [factura |-> f], 0)
    /\ UNCHANGED <<pagos, hoy, enVuelo, filas, libro, barrido, alertas>>

\* PATCH of the tipo of a factura (FacturaDetailView with
\* FacturaUpdateSerializer.update): get_queryset sweeps first, then the new
\* tipo is saved. The two facturas have different digits in numero_factura,
\* so the renumbering never collides.
CambiarTipoFactura(f, tipo_nuevo) ==
    /\ LET F1 == actualizar_estados_vencidas(facturas, pagos, hoy).facturas
       IN  /\ facturas' = [F1 EXCEPT ![f].tipo = tipo_nuevo]
           /\ ultima' = Otra
    /\ UNCHANGED <<pagos, hoy, enVuelo, filas, libro, barrido, alertas>>

\* The calendar day advances.
AvanzarDia ==
    /\ hoy < MaxDia
    /\ hoy' = hoy + 1
    /\ ultima' = Otra
    /\ UNCHANGED <<facturas, pagos, enVuelo, filas, libro, barrido, alertas>>

\* First half of a confirmation that runs concurrently with others: the
\* instance is loaded, its estado set to confirmado and full_clean reads
\* the table. The request then holds the validated instance.
IniciarConfirmacion(p) ==
    /\ BagIn(p, pagos)
    /\ p.estado = "registrado"
    /\ CopiesIn(p, enVuelo) < CopiesIn(p, pagos)
    /\ LET q == [p EXCEPT !.estado = "confirmado"]
           res == Pago_clean(q, facturas, SinFila(pagos, p))
       IN  /\ enVuelo' = IF res = "ok" THEN enVuelo (+) Uno(p) ELSE enVuelo
           /\ ultima' = Otra
    /\ UNCHANGED <<facturas, pagos, hoy, filas, libro, barrido, alertas>>

\* Second half: super().save() writes the row as confirmado and the
\* factura is recomputed.
TerminarConfirmacion(p) ==
    /\ BagIn(p, enVuelo)
    /\ LET q == [p EXCEPT !.estado = "confirmado"]
           P2 == SinFila(pagos, p) (+) Uno(q)
       IN  /\ pagos' = P2
           /\ facturas' = actualizar_estado(facturas, P2, p.factura, hoy)
           /\ ultima' = Ultima("confirmar", "ok", p, 0)
    /\ enVuelo' = enVuelo (-) Uno(p)
    /\ UNCHANGED <<hoy, filas, libro, barrido, alertas>>

\* POST of a payment with valid amounts, in the view with codigo: Pago.save
\* of a new instance gives it its codigo and the row gets the next key.
RegistrarPagoCodigo(f) ==
    /\ Len(filas) < MaxFilas
    /\ filas' = Append(filas,
                       [factura |-> f,
                        codigo |-> generar_codigo(SinCodigo, f, facturas, filas),
                        estado |-> "registrado",
                        notas |-> 0])
    /\ UNCHANGED <<facturas, pagos, hoy, ultima, enVuelo, libro, barrido, alertas>>

\* Confirmation of the row pk, in the view with codigo: Pago.save of an
\* existing instance.
ConfirmarPagoCodigo(pk) ==
    /\ filas[pk] # Nulo
    /\ filas[pk].estado = "registrado"
    /\ filas' = [filas EXCEPT ![pk] =
                   [@ EXCEPT !.estado = "confirmado",
                             !.codigo = generar_codigo(@, filas[pk].factura, facturas, filas)]]
    /\ UNCHANGED <<facturas, pagos, hoy, ultima, enVuelo, libro, barrido, alertas>>

\* PATCH of the notas of the row pk, in the view with codigo.
ActualizarPagoCodigo(pk, n) ==
    /\ filas[pk] # Nulo
    /\ filas' = [filas EXCEPT ![pk] =
                   [@ EXCEPT !.notas = n,
                             !.codigo = generar_codigo(@, filas[pk].factura, facturas, filas)]]
    /\ UNCHANGED <<facturas, pagos, hoy, ultima, enVuelo, libro, barrido, alertas>>

\* DELETE of the row pk, in the view with codigo: its key is not reused.
EliminarPagoCodigo(pk) ==
    /\ filas[pk] # Nulo
    /\ filas' = [filas EXCEPT ![pk] = Nulo]
    /\ UNCHANGED <<facturas, pagos, hoy, ultima, enVuelo, libro, barrido, alertas>>

\* POST of a factura (FacturaListCreateView): serializer validation, then
\* perform_create, which only lets a Gerente through.
FacturaListCreateView_post(gerente, n, d) ==
    /\ LET v == FacturaCreateSerializer_validate(libro, n, d)
       IN  libro' = IF v = "ok" /\ gerente THEN [libro EXCEPT ![n] = FacturaNueva(d)]
                                            ELSE libro
    /\ ultima' = Otra
    /\ UNCHANGED <<facturas, pagos, hoy, enVuelo, filas, barrido, alertas>>

\* POST of a file on importacion/confirmar/ (IsGerente).
confirmar_importacion(archivo) ==
    /\ LET r == confirmar_importacion_facturas(libro, archivo)
       IN  /\ libro' = r.libro
           /\ ultima' = Ultima("importar",
                               IF r.errores = 0 THEN "completado" ELSE "error",
                               Nulo, r.errores)
    /\ UNCHANGED <<facturas, pagos, hoy, enVuelo, filas, barrido, alertas>>

\* PATCH of the fecha_vencimiento of the factura n by a Gerente
\* (FacturaUpdateSerializer has no valor_total and no fecha_emision).
FacturaDetailView_patch_fecha(n, fv) ==
    /\ libro[n] # Nulo
    /\ libro' = [libro EXCEPT ![n].fecha_vencimiento = fv]
    /\ ultima' = Otra
    /\ UNCHANGED <<facturas, pagos, hoy, enVuelo, filas, barrido, alertas>>

\* DELETE of the factura n (FacturaDetailView.perform_destroy).
FacturaDetailView_delete(gerente, n) ==
    /\ libro[n] # Nulo
    /\ LET r == perform_destroy(libro, gerente, n)
       IN  /\ libro' = r.libro
           /\ ultima' = Ultima("eliminar_factura", r.res, [factura |-> n], 0)
    /\ UNCHANGED <<facturas, pagos, hoy, enVuelo, filas, barrido, alertas>>

\* A payment is registered on the factura n of the table.
AdjuntarPago(n) ==
    /\ libro[n] # Nulo
    /\ Len(libro[n].pagos) < MaxAdjuntos
    /\ libro' = [libro EXCEPT ![n].pagos = Append(@, "registrado")]
    /\ ultima' = Otra
    /\ UNCHANGED <<facturas, pagos, hoy, enVuelo, filas, barrido, alertas>>

\* The payment i of the factura n is confirmed (the amounts are not part
\* of this table: a confirmation that is refused changes nothing).
ConfirmarAdjunto(n, i) ==
    /\ libro[n] # Nulo
    /\ i \in 1..Len(libro[n].pagos)
    /\ libro[n].pagos[i] = "registrado"
    /\ libro' = [libro EXCEPT ![n].pagos[i] = "confirmado"]
    /\ ultima' = Otra
    /\ UNCHANGED <<facturas, pagos, hoy, enVuelo, filas, barrido, alertas>>

\* The payment i of the factura n is deleted.
EliminarAdjunto(n, i) ==
    /\ libro[n] # Nulo
    /\ i \in 1..Len(libro[n].pagos)
    /\ libro' = [libro EXCEPT ![n].pagos =
                    SubSeq(@, 1, i - 1) \o SubSeq(@, i + 1, Len(@))]
    /\ ultima' = Otra
    /\ UNCHANGED <<facturas, pagos, hoy, enVuelo, filas, barrido, alertas>>

\* A sweep that runs while other requests are served, statement by
\* statement. First the queryset of actualizar_estados_vencidas is
\* evaluated: the sweep holds the selected instances with the estado they
\* had then.
BarridoSeleccionar ==
    /\ barrido.fase = "inactivo"
    /\ LET cola == facturas_a_vencer(facturas, hoy)
       IN  barrido' = IF cola = {}
                        THEN SinBarrido
                        ELSE [fase |-> "iterando", cola |-> cola,
                              copia |-> [f \in FacturaIds |-> facturas[f].estado]]
    /\ ultima' = Otra
    /\ UNCHANGED <<facturas, pagos, hoy, enVuelo, filas, libro, alertas>>

\* actualizar_estado on the next instance, up to the test on
\* estado_anterior: the aggregates are read from the table as it is now,
\* the estado is the one the instance was loaded with.
BarridoCalcular ==
    /\ barrido.fase = "iterando"
    /\ LET f == CHOOSE g \in barrido.cola : \A h \in barrido.cola : g <= h
           instancia == [facturas EXCEPT ![f].estado = barrido.copia[f]]
       IN  barrido' = [fase |-> "calculado", cola |-> barrido.cola,
                       copia |-> barrido.copia, actual |-> f,
                       nuevo |-> EstadoCalculado(instancia, pagos, f, hoy)]
    /\ ultima' = Otra
    /\ UNCHANGED <<facturas, pagos, hoy, enVuelo, filas, libro, alertas>>

\* The end of actualizar_estado: save(update_fields=['estado']) when the
\* computed estado differs from estado_anterior; then the loop goes on.
BarridoEscribir ==
    /\ barrido.fase = "calculado"
    /\ LET f == barrido.actual
           cola == barrido.cola \ {f}
       IN  /\ facturas' = IF barrido.nuevo # barrido.copia[f]
                            THEN [facturas EXCEPT ![f].estado = barrido.nuevo]
                            ELSE facturas
           /\ barrido' = IF cola = {}
                           THEN SinBarrido
                           ELSE [fase |-> "iterando", cola |-> cola,
                                 copia |-> barrido.copia]
           /\ ultima' = Ultima("barrido_factura", "ok", [factura |-> f], 0)
    /\ UNCHANGED <<pagos, hoy, enVuelo, filas, libro, alertas>>

\* POST of a payment with the handlers of alertas/signals.py.
RegistrarPagoAlertas(f, m) ==
    /\ BagCardinality(pagos) < MaxPagos
    /\ LET v == PagoCreateSerializer_validate(m, f, facturas)
           s == Pago_save_con_senales(NuevoPago(f, m), Nulo, facturas, pagos, alertas, hoy)
       IN  /\ pagos' = IF v # "ok" THEN pagos ELSE s.pagos
           /\ facturas' = IF v # "ok" THEN facturas ELSE s.facturas
           /\ alertas' = IF v # "ok" THEN alertas ELSE s.alertas
           /\ ultima' = Otra
    /\ UNCHANGED <<hoy, enVuelo, filas, libro, barrido>>

\* Confirmation of a payment with the handlers of alertas/signals.py.
ConfirmarPagoAlertas(p) ==
    /\ BagIn(p, pagos)
    /\ LET q == [p EXCEPT !.estado = "confirmado"]
           s == Pago_save_con_senales(q, p, facturas, pagos, alertas, hoy)
       IN  IF p.estado # "registrado"
             THEN /\ UNCHANGED <<pagos, facturas, alertas>>
                  /\ ultima' = Ultima("confirmar", "estado_terminal", p, 0)
             ELSE /\ pagos' = s.pagos
                  /\ facturas' = s.facturas
                  /\ alertas' = s.alertas
                  /\ ultima' = Ultima("confirmar", s.res, p, 0)
    /\ UNCHANGED <<hoy, enVuelo, filas, libro, barrido>>

\* The management command actualizar_vencidas with the post_save of each
\* factura it saves.
BarridoAlertas ==
    /\ LET s == actualizar_estados_vencidas(facturas, pagos, hoy)
       IN  /\ facturas' = s.facturas
           /\ alertas' = senales_del_barrido(alertas, facturas, s.facturas,
                                             facturas_a_vencer(facturas, hoy), hoy)
           /\ ultima' = Ultima("barrido", "ok", Nulo, s.count)
    /\ UNCHANGED <<pagos, hoy, enVuelo, filas, libro, barrido>>

\* The management command procesar_alertas: generar_alertas_vencimiento,
\* whose exception the command reports.
procesar_alertas ==
    /\ LET r == generar_alertas_vencimiento(alertas, facturas, hoy)
       IN  /\ alertas' = r.alertas
           /\ ultima' = Ultima("procesar_alertas", r.res, Nulo, 0)
    /\ UNCHANGED <<facturas, pagos, hoy, enVuelo, filas, libro, barrido>>

\* PATCH <pk>/marcar-leida/ by the recipient.
marcar_alerta_estado(pk, leida) ==
    /\ LET r == cambiar_estado_alerta(alertas, pk, leida)
       IN  /\ alertas' = r.alertas
           /\ ultima' = Ultima("marcar_alerta", r.res, Nulo, pk)
    /\ UNCHANGED <<facturas, pagos, hoy, enVuelo, filas, libro, barrido>>

\* PATCH <pk>/ of the estado of an alert by the recipient.
AlertaDetailView_patch(pk, value) ==
    /\ IF pk \notin 1..Len(alertas)
         THEN /\ UNCHANGED alertas
              /\ ultima' = Ultima("patch_alerta", "404", Nulo, pk)
         ELSE IF value \notin transiciones_permitidas(alertas[pk].estado)
           THEN /\ UNCHANGED alertas
                /\ ultima' = Ultima("patch_alerta", "ValidationError", Nulo, pk)
           ELSE /\ alertas' = [alertas EXCEPT ![pk].estado = value]
                /\ ultima' = Ultima("patch_alerta", "ok", Nulo, pk)
    /\ UNCHANGED <<facturas, pagos, hoy, enVuelo, filas, libro, barrido>>

Next ==
    \/ \E f \in FacturaIds, m \in Montos : RegistrarPago(f, m)
    \/ \E p \in BagToSet(pagos) : confirmar_pago(p)
    \/ \E p \in BagToSet(pagos) : EliminarPago(p)
    \/ \E p \in BagToSet(pagos) : ActualizarPago(p)
    \/ Barrido
    \/ \E f \in FacturaIds, value \in ESTADOS_FACTURA : ActualizarFactura(f, value)
    \/ AvanzarDia

Spec == Init /\ [][Next]_vars

\* Requests served concurrently: the two halves of a confirmation
\* interleave with the halves of other confirmations and with registrations.
NextConc ==
    \/ \E f \in FacturaIds, m \in Montos : RegistrarPago(f, m)
    \/ \E p \in BagToSet(pagos) : IniciarConfirmacion(p)
    \/ \E p \in BagToSet(enVuelo) : TerminarConfirmacion(p)

SpecConc == Init /\ [][NextConc]_vars

\* Payment requests, sweeps and the calendar, with no PATCH of a factura:
\* the estado of a factura is only written by actualizar_estado.
NextPagos ==
    \/ \E f \in FacturaIds, m \in Montos : RegistrarPago(f, m)
    \/ \E p \in BagToSet(pagos) : confirmar_pago(p)
    \/ \E p \in BagToSet(pagos) : EliminarPago(p)
    \/ \E p \in BagToSet(pagos) : ActualizarPago(p)
    \/ Barrido
    \/ AvanzarDia

SpecPagos == Init /\ [][NextPagos]_vars

\* Payment requests together with changes of the tipo of a factura.
NextTipo ==
    \/ \E f \in FacturaIds, m \in Montos : RegistrarPago(f, m)
    \/ \E p \in BagToSet(pagos) : confirmar_pago(p)
    \/ \E p \in BagToSet(pagos) : EliminarPago(p)
    \/ \E f \in FacturaIds, t \in TIPOS_FACTURA : CambiarTipoFactura(f, t)

SpecTipo == Init /\ [][NextTipo]_vars

\* The requests that write the view with codigo.
NextCodigo ==
    \/ \E f \in FacturaIds : RegistrarPagoCodigo(f)
    \/ \E pk \in 1..Len(filas) : ConfirmarPagoCodigo(pk)
    \/ \E pk \in 1..Len(filas), n \in {0, 1} : ActualizarPagoCodigo(pk, n)
    \/ \E pk \in 1..Len(filas) : EliminarPagoCodigo(pk)

SpecCodigo == Init /\ [][NextCodigo]_vars

\* Saves through the model and through the serializer, with amounts of
\* either sign, and confirmations and deletions of what was saved.
NextModelo ==
    \/ \E f \in FacturaIds, m \in MontosConSigno : GuardarPagoNuevo(f, m)
    \/ \E f \in FacturaIds, m \in MontosConSigno : RegistrarPago(f, m)
    \/ \E p \in BagToSet(pagos) : confirmar_pago(p)
    \/ \E p \in BagToSet(pagos) : EliminarPago(p)

SpecModelo == Init /\ [][NextModelo]_vars

\* Registrations sent to the list route by every kind of user.
NextPost ==
    \E u \in Usuarios, f \in FacturaIds, m \in Montos : PagoListCreateView_post(u, f, m)

SpecPost == Init /\ [][NextPost]_vars

\* Registrations, confirmations and sweeps together with PATCH requests on
\* the estado of a factura, whose responses are kept.
NextPatch ==
    \/ \E f \in FacturaIds, m \in MontosSaldo : RegistrarPago(f, m)
    \/ \E p \in BagToSet(pagos) : confirmar_pago(p)
    \/ \E f \in FacturaIds, value \in ESTADOS_FACTURA : FacturaDetailView_patch(f, value)
    \/ Barrido
    \/ AvanzarDia

SpecPatch == Init /\ [][NextPatch]_vars

\* Registrations whose responses are kept, confirmations, sweeps and the
\* calendar.
NextRegistro ==
    \/ \E f \in FacturaIds, m \in MontosRegistro : RegistrarPagoVisto(f, m)
    \/ \E p \in BagToSet(pagos) : confirmar_pago(p)
    \/ Barrido
    \/ AvanzarDia

SpecRegistro == Init /\ [][NextRegistro]_vars

\* Registrations and confirmations together with PATCH requests on
\* payments and the calendar.
NextActualizar ==
    \/ \E f \in FacturaIds, m \in MontosSaldo : RegistrarPago(f, m)
    \/ \E p \in BagToSet(pagos) : confirmar_pago(p)
    \/ \E p \in BagToSet(pagos), n \in {0, 1} : PagoDetailView_patch(p, n)
    \/ AvanzarDia

SpecActualizar == Init /\ [][NextActualizar]_vars

\* A sweep served statement by statement while payments are registered,
\* confirmed and deleted, each of these in one step.
NextBarrido ==
    \/ \E f \in FacturaIds, m \in MontosCaja : RegistrarPago(f, m)
    \/ \E p \in BagToSet(pagos) : confirmar_pago(p)
    \/ \E p \in BagToSet(pagos) : EliminarPago(p)
    \/ BarridoSeleccionar
    \/ BarridoCalcular
    \/ BarridoEscribir
    \/ AvanzarDia

SpecBarrido == Init /\ [][NextBarrido]_vars

\* The requests that create, import, change and delete facturas, and the
\* payments that attach to them.
NextLibro ==
    \/ \E g \in BOOLEAN, n \in Numeros, d \in DatosFactura : FacturaListCreateView_post(g, n, d)
    \/ \E archivo \in Archivos : confirmar_importacion(archivo)
    \/ \E n \in Numeros, fv \in {0, 1} : FacturaDetailView_patch_fecha(n, fv)
    \/ \E g \in BOOLEAN, n \in Numeros : FacturaDetailView_delete(g, n)
    \/ \E n \in Numeros : AdjuntarPago(n)
    \/ \E n \in Numeros, i \in 1..MaxAdjuntos : ConfirmarAdjunto(n, i)
    \/ \E n \in Numeros, i \in 1..MaxAdjuntos : EliminarAdjunto(n, i)

SpecLibro == Init /\ [][NextLibro]_vars

\* The payment requests and the sweep with their handlers, the alert
\* generation command and the alert routes.
NextAlertas ==
    \/ \E f \in FacturaIds, m \in MontosCaja : RegistrarPagoAlertas(f, m)
    \/ \E p \in BagToSet(pagos) : ConfirmarPagoAlertas(p)
    \/ BarridoAlertas
    \/ procesar_alertas
    \/ \E pk \in 1..(Len(alertas) + 1), leida \in BOOLEAN : marcar_alerta_estado(pk, leida)
    \/ \E pk \in 1..(Len(alertas) + 1), value \in {"leida", "procesada", "descartada"} :
          AlertaDetailView_patch(pk, value)
    \/ AvanzarDia

SpecAlertas == Init /\ [][NextAlertas]_vars

TypeOK ==
    /\ hoy \in 0..MaxDia
    /\ \A f \in FacturaIds : facturas[f].estado \in ESTADOS_FACTURA
    /\ IsABag(pagos)
    /\ BagCardinality(pagos) <= MaxPagos
    /\ \A r \in BagToSet(pagos) : r.estado \in ESTADOS_PAGO /\ r.factura \in FacturaIds

----------------------------------------------------------------------------
(* Properties *)

RECURSIVE SumaAplicado(_, _)
SumaAplicado(S, B) ==
    IF S = {} THEN 0
    ELSE LET r == CHOOSE x \in S : TRUE
         IN  CopiesIn(r, B) * (r.valor_pagado + r.descuento + r.ica + r.retencion + r.nota)
               + SumaAplicado(S \ {r}, B)

\* Sum of the five components over the confirmed payments of factura f.
AplicadoConfirmado(P, f) ==
    SumaAplicado({r \in BagToSet(P) : r.factura = f /\ r.estado = "confirmado"}, P)

\* Number of confirmed payments of factura f with a positive value in campo.
ConfirmadosCon(P, f, campo) ==
    LET S == {r \in BagToSet(P) :
                r.factura = f /\ r.estado = "confirmado" /\ r[campo] > 0}
    IN  BagCardinality([r \in S |-> CopiesIn(r, P)])

\* The status function of the specification (section 4.3).
determine_status(F, P, f, dia) ==
    IF AplicadoConfirmado(P, f) >= F[f].valor_total THEN "pagada"
    ELSE IF dia > F[f].fecha_vencimiento THEN "vencida"
    ELSE IF AplicadoConfirmado(P, f) > 0 THEN "parcial"
    ELSE "pendiente"

\* C1: with requests served one at a time, the outstanding balance of every
\* factura is its valor_total minus the five components of its confirmed
\* payments only, and it is never negative.
C1_SaldoNoNegativo ==
    \A f \in FacturaIds :
        /\ saldo_pendiente(facturas, pagos, f)
             = facturas[f].valor_total - AplicadoConfirmado(pagos, f)
        /\ saldo_pendiente(facturas, pagos, f) >= 0

\* A factura paid in full by confirmed payments that include a non-cash
\* component, with a registered payment still attached to it.
C1_Testigo ==
    \E f \in FacturaIds :
        /\ saldo_pendiente(facturas, pagos, f) = 0
        /\ total_descuentos(pagos, f) > 0
        /\ \E r \in BagToSet(pagos) :
              r.factura = f /\ r.estado = "registrado" /\ aplicado_nuevo(r) > 0

\* C2: under concurrent confirmations the total applied by the confirmed
\* payments of a factura never exceeds its valor_total.
C2_TopeConcurrente ==
    \A f \in FacturaIds : AplicadoConfirmado(pagos, f) <= facturas[f].valor_total

\* C3: a confirmation of a registered payment whose components, added to
\* what the confirmed payments of the factura already apply, exceed
\* valor_total is rejected and changes neither the pagos nor the facturas.
C3_ExcesoRechazado ==
    [][ (/\ ultima'.op = "confirmar"
         /\ ultima'.pago.estado = "registrado"
         /\ AplicadoConfirmado(pagos, ultima'.pago.factura) + aplicado_nuevo(ultima'.pago)
              > facturas[ultima'.pago.factura].valor_total)
        => (/\ ultima'.res # "ok"
            /\ pagos' = pagos
            /\ facturas' = facturas) ]_vars

\* A confirmation rejected for exceeding the balance of a factura whose
\* confirmed payments already total valor_total; the payment is still
\* registered.
C3_Testigo ==
    /\ ultima.op = "confirmar"
    /\ ultima.res = "excede_saldo"
    /\ BagIn(ultima.pago, pagos)
    /\ ultima.pago.estado = "registrado"
    /\ AplicadoConfirmado(pagos, ultima.pago.factura)
         = facturas[ultima.pago.factura].valor_total

\* C4: a registration, accepted or rejected, leaves total paid, total
\* discounts, balance and stored estado of every factura as they were.
C4_RegistroSinEfecto ==
    [][ (\E g \in FacturaIds, m \in Montos : RegistrarPago(g, m))
        => \A f \in FacturaIds :
              /\ total_pagado(pagos', f) = total_pagado(pagos, f)
              /\ total_descuentos(pagos', f) = total_descuentos(pagos, f)
              /\ saldo_pendiente(facturas', pagos', f) = saldo_pendiente(facturas, pagos, f)
              /\ facturas'[f].estado = facturas[f].estado ]_vars

\* A registered payment larger than the balance sits on a factura that has a
\* confirmed payment, is past due and is still stored as parcial.
C4_Testigo ==
    \E r \in BagToSet(pagos) :
        /\ r.estado = "registrado"
        /\ aplicado_nuevo(r) > saldo_pendiente(facturas, pagos, r.factura)
        /\ total_pagado(pagos, r.factura) > 0
        /\ hoy > facturas[r.factura].fecha_vencimiento
        /\ facturas[r.factura].estado = "parcial"

\* A request on payment p that ends with actualizar_estado on its factura:
\* an accepted confirmation or a deletion.
Recalcula(p) == (confirmar_pago(p) /\ ultima'.res = "ok") \/ EliminarPago(p)

\* C5: after a recomputation of a factura that was not cancelada, its
\* stored estado is the one determine_status gives.
C5_EstadoDeterminado ==
    [][ \A p \in BagToSet(pagos) :
          (Recalcula(p) /\ facturas[p.factura].estado # "cancelada")
          => facturas'[p.factura].estado
               = determine_status(facturas', pagos', p.factura, hoy') ]_vars

\* C6: right after a recomputation of a factura, a second recomputation
\* with no write and no date change in between leaves its estado as it is
\* (and so writes nothing). Stated for a factura that was not cancelada
\* when the first recomputation ran; the cancelled case is C9.
C6_RecalculoIdempotente ==
    [][ \A p \in BagToSet(pagos) :
          (Recalcula(p) /\ facturas[p.factura].estado # "cancelada")
          => actualizar_estado(facturas', pagos', p.factura, hoy') = facturas' ]_vars

\* C7: right after a sweep, a second sweep returns 0 and changes no factura.
C7_BarridoIdempotente ==
    ultima.op = "barrido"
    => LET s == actualizar_estados_vencidas(facturas, pagos, hoy)
       IN  s.count = 0 /\ s.facturas = facturas

\* A sweep that moved a factura with a confirmed partial payment to vencida.
C7_Testigo ==
    /\ ultima.op = "barrido"
    /\ ultima.n >= 1
    /\ \E f \in FacturaIds :
          facturas[f].estado = "vencida" /\ total_pagado(pagos, f) > 0

\* C8: the count a sweep returns is the number of facturas whose stored
\* estado the sweep changed.
C8_CuentaDelBarrido ==
    [][ ultima'.op = "barrido"
        => ultima'.n = Cardinality({f \in FacturaIds :
                                      facturas'[f].estado # facturas[f].estado}) ]_vars

\* A sweep that selected and changed at least two facturas.
C8_Testigo ==
    /\ ultima.op = "barrido"
    /\ ultima.n >= 2

\* C9: a confirmation, a deletion, a payment save or a sweep neither moves
\* a factura out of cancelada nor into it.
C9_CanceladaEstable ==
    [][ (\/ \E p \in BagToSet(pagos) :
               confirmar_pago(p) \/ EliminarPago(p) \/ ActualizarPago(p)
         \/ Barrido)
        => \A f \in FacturaIds :
              (facturas[f].estado = "cancelada") <=> (facturas'[f].estado = "cancelada") ]_vars

\* At most one confirmed payment with ICA and at most one with retencion.
RetencionUnica(P) ==
    \A f \in FacturaIds :
        ConfirmadosCon(P, f, "ica") <= 1 /\ ConfirmadosCon(P, f, "retencion") <= 1

\* C10: every factura has at most one confirmed payment with ICA > 0 and at
\* most one with retencion > 0; a confirmation carrying a withholding that a
\* confirmed payment of the factura already carries is rejected; one that
\* carries no withholding and fits in the balance succeeds.
C10_RetencionUnaVez ==
    [][ /\ RetencionUnica(pagos')
        /\ (ultima'.op = "confirmar" /\ ultima'.pago.estado = "registrado")
           => LET p == ultima'.pago
                  f == p.factura
              IN  /\ (p.ica > 0 /\ ConfirmadosCon(pagos, f, "ica") > 0)
                       => (ultima'.res # "ok" /\ pagos' = pagos)
                  /\ (p.retencion > 0 /\ ConfirmadosCon(pagos, f, "retencion") > 0)
                       => (ultima'.res # "ok" /\ pagos' = pagos)
                  /\ (/\ p.ica = 0
                      /\ p.retencion = 0
                      /\ AplicadoConfirmado(pagos, f) + aplicado_nuevo(p)
                           <= facturas[f].valor_total)
                       => (/\ ultima'.res = "ok"
                           /\ BagIn([p EXCEPT !.estado = "confirmado"], pagos')) ]_vars

\* A discount-only payment was just confirmed on a factura that already has
\* a confirmed payment with ICA.
C10_Testigo ==
    /\ ultima.op = "confirmar"
    /\ ultima.res = "ok"
    /\ ultima.pago.descuento > 0
    /\ ultima.pago.ica = 0
    /\ ultima.pago.retencion = 0
    /\ ConfirmadosCon(pagos, ultima.pago.factura, "ica") = 1

\* C11: every payment with ICA > 0 or retencion > 0 belongs to a factura of
\* tipo FE, after registrations, confirmations, deletions and changes of
\* the tipo of a factura.
C11_RetencionSoloFE ==
    \A r \in BagToSet(pagos) :
        (r.ica > 0 \/ r.retencion > 0) => facturas[r.factura].tipo = "FE"

\* C12: after the deletion of a confirmed payment, the stored estado of its
\* factura is the one determine_status gives for the confirmed payments
\* that remain.
C12_EliminarConfirmado ==
    [][ \A p \in BagToSet(pagos) :
          (EliminarPago(p) /\ p.estado = "confirmado")
          => facturas'[p.factura].estado
               = determine_status(facturas', pagos', p.factura, hoy') ]_vars

\* C13: the deletion of a payment that is registrado leaves the stored
\* estado and the balance of its factura as they were.
C13_EliminarRegistrado ==
    [][ \A p \in BagToSet(pagos) :
          (EliminarPago(p) /\ p.estado = "registrado")
          => /\ facturas'[p.factura].estado = facturas[p.factura].estado
             /\ saldo_pendiente(facturas', pagos', p.factura)
                  = saldo_pendiente(facturas, pagos, p.factura) ]_vars

Existentes(T) == {pk \in 1..Len(T) : T[pk] # Nulo}

\* C15: no two existing payments of one factura have the same codigo.
C15_CodigoUnico ==
    \A i, j \in Existentes(filas) :
        (i # j /\ filas[i].factura = filas[j].factura)
        => filas[i].codigo # filas[j].codigo

\* C16: every existing payment has a codigo from its first save on, and no
\* request changes the codigo of a payment that stays in the table.
C16_CodigoFijo ==
    [][ /\ \A pk \in Existentes(filas') : filas'[pk].codigo # SinCodigo
        /\ \A pk \in Existentes(filas) :
              pk \in Existentes(filas') => filas'[pk].codigo = filas[pk].codigo ]_vars

\* A confirmed payment with edited notas keeps a codigo that the codigo
\* block would not give it now: an earlier payment was deleted and its
\* factura has a later payment.
C16_Testigo ==
    \E pk \in Existentes(filas) :
        /\ filas[pk].estado = "confirmado"
        /\ filas[pk].notas = 1
        /\ filas[pk].codigo
             # generar_codigo(SinCodigo, filas[pk].factura, facturas, filas)
        /\ \E j \in 1..Len(filas) : j < pk /\ filas[j] = Nulo
        /\ \E j \in Existentes(filas) :
              j > pk /\ filas[j].factura = filas[pk].factura

\* C17: every payment in the table has its five components >= 0, whether
\* it was saved through the serializer or through the model alone.
C17_ComponentesNoNegativos ==
    \A r \in BagToSet(pagos) :
        /\ r.valor_pagado >= 0
        /\ r.descuento >= 0
        /\ r.ica >= 0
        /\ r.retencion >= 0
        /\ r.nota >= 0

\* Amounts that are all zero.
Cero == <<0, 0, 0, 0, 0>>

\* C18: a registration whose five components are all 0 is answered with
\* the validation error "at least one value" on every factura, whatever
\* its estado, and writes nothing; the validation of the model refuses the
\* same instance.
C18_TodoCeroRechazado ==
    [][ \A f \in FacturaIds :
          RegistrarPago(f, Cero)
          => /\ ultima'.op = "registrar"
             /\ ultima'.res = "sin_valor"
             /\ pagos' = pagos
             /\ facturas' = facturas
             /\ Pago_clean(NuevoPago(f, Cero), facturas, pagos) = "sin_valor" ]_vars

\* An all-zero registration was just refused on a factura that is
\* cancelada, while another factura has payments.
C18_Testigo ==
    /\ ultima.op = "registrar"
    /\ ultima.res = "sin_valor"
    /\ aplicado_nuevo(ultima.pago) = 0
    /\ facturas[ultima.pago.factura].estado = "cancelada"
    /\ pagos # EmptyBag

\* The authorization rule of the specification for a registration.
Autorizado(u, fac) ==
    \/ "Gerente" \in u.grupos
    \/ "Vendedor" \in u.grupos /\ fac.vendedor_id = u.id
    \/ "Distribuidor" \in u.grupos /\ fac.distribuidor_id = u.id

\* C19: a registration with valid amounts is answered with an
\* authorization error exactly when the user is neither a Gerente, nor a
\* Vendedor who is the vendedor of the factura, nor a Distribuidor who is
\* its distribuidor; and a registration answered with an authorization
\* error writes no payment.
C19_AutorizacionRegistro ==
    [][ \A u \in Usuarios, f \in FacturaIds, m \in Montos :
          (/\ PagoListCreateView_post(u, f, m)
           /\ PagoCreateSerializer_validate(m, f, facturas) = "ok")
          => /\ (ultima'.res \in {"PermissionError", "PermissionDenied"})
                  <=> ~Autorizado(u, facturas[f])
             /\ (ultima'.res \in {"PermissionError", "PermissionDenied"})
                  => pagos' = pagos ]_vars

\* C20: after every request that writes (every step but the passing of a
\* day), the stored estado of each factura that is not cancelada is the one
\* determine_status gives; and a PATCH of a factura does not make it
\* cancelada.
C20_EstadoSiempreDeterminado ==
    [][ /\ hoy' = hoy
           => \A f \in FacturaIds :
                 facturas'[f].estado # "cancelada"
                 => facturas'[f].estado = determine_status(facturas', pagos', f, hoy')
        /\ (\E f \in FacturaIds, value \in ESTADOS_FACTURA : ActualizarFactura(f, value))
           => \A g \in FacturaIds :
                 facturas'[g].estado = "cancelada" => facturas[g].estado = "cancelada" ]_vars

Persistidas(L) == {n \in Numeros : L[n] # Nulo}

C23_FacturaValida ==
    \A n \in Persistidas(libro) :
        /\ libro[n].fecha_emision <= libro[n].fecha_vencimiento
        /\ libro[n].valor_total > 0

\* The rows of a file that name a factura of L with payments.
FilasConPagos(L, archivo) ==
    {i \in 1..Len(archivo) : L[archivo[i][1]] # Nulo /\ L[archivo[i][1]].pagos # << >>}

\* C28: while a factura has a payment attached its valor_total does not
\* change. No request changes it (the PATCH has no valor_total, the factura
\* cannot be deleted), and the import of any file leaves every factura with
\* payments as it was and reports one row error for each row that names
\* one.
C28_ValorTotalFijo ==
    /\ [](\A archivo \in Archivos :
             LET r == confirmar_importacion_facturas(libro, archivo)
             IN  /\ r.errores = Cardinality(FilasConPagos(libro, archivo))
                 /\ \A n \in Persistidas(libro) :
                       libro[n].pagos # << >> => r.libro[n] = libro[n])
    /\ [][ \A n \in Persistidas(libro) :
             libro[n].pagos # << >>
             => /\ libro'[n] # Nulo
                /\ libro'[n].valor_total = libro[n].valor_total ]_vars

\* An import was just answered with one row error while a factura has a
\* payment and the other factura, without payments, has the total 2 that
\* only a row can give it after a first total of 1.
C28_Testigo ==
    /\ ultima.op = "importar"
    /\ ultima.res = "error"
    /\ ultima.n = 1
    /\ \E n, m \in Persistidas(libro) :
          /\ libro[n].pagos # << >>
          /\ libro[m].pagos = << >>
          /\ libro[m].valor_total = 2

\* The component rules for a payment p on its factura: no negative
\* component, a positive total, ICA and retencion only on FE and only once.
ComponentesValidos(p, F, P) ==
    /\ p.valor_pagado >= 0 /\ p.descuento >= 0 /\ p.ica >= 0
    /\ p.retencion >= 0 /\ p.nota >= 0
    /\ aplicado_nuevo(p) > 0
    /\ (p.ica > 0 \/ p.retencion > 0) => F[p.factura].tipo = "FE"
    /\ p.ica > 0 => ~ya_ica(P, p.factura)
    /\ p.retencion > 0 => ~ya_rete(P, p.factura)

C26_BarridoCompleto ==
    [][ ultima'.op = "barrido"
        => /\ \A f \in FacturaIds :
                 IF /\ facturas[f].fecha_vencimiento < hoy
                    /\ facturas[f].estado \in {"pendiente", "parcial"}
                   THEN facturas'[f].estado
                          = IF saldo_pendiente(facturas, pagos, f) <= 0
                              THEN "pagada" ELSE "vencida"
                   ELSE facturas'[f] = facturas[f]
           /\ \A f \in FacturaIds :
                 facturas'[f].fecha_vencimiento < hoy'
                 => facturas'[f].estado \notin {"pendiente", "parcial"}
           /\ pagos' = pagos ]_vars

\* A sweep just changed a factura while the other one is cancelada, and a
\* payment that is registrado is in the table.
C26_Testigo ==
    /\ ultima.op = "barrido"
    /\ ultima.n = 1
    /\ \E f, g \in FacturaIds :
          /\ facturas[f].estado = "cancelada"
          /\ facturas[g].estado \in {"vencida", "pagada"}
          /\ facturas[g].fecha_vencimiento < hoy
    /\ \E r \in BagToSet(pagos) : r.estado = "registrado"

\* C27: a PATCH of a payment changes nothing of its row but the notas: the
\* factura, the five amounts and the estado stay, a codigo the row has is
\* the codigo the save keeps, no other row changes, and the balance of
\* every factura is what it was.
C27_ActualizarSoloNotas ==
    [][ ultima'.op = "actualizar"
        => LET p == ultima'.pago
               q == [p EXCEPT !.notas = ultima'.n]
           IN  /\ pagos' \in {pagos, (pagos (-) Uno(p)) (+) Uno(q)}
               /\ ultima'.res = "ok" => pagos' = (pagos (-) Uno(p)) (+) Uno(q)
               /\ \A k \in 1..MaxFilas :
                     LET c == <<numero_factura(facturas, p.factura), k>>
                     IN  generar_codigo(c, p.factura, facturas', filas) = c
               /\ \A f \in FacturaIds :
                     /\ facturas'[f].valor_total = facturas[f].valor_total
                     /\ saldo_pendiente(facturas', pagos', f)
                          = saldo_pendiente(facturas, pagos, f) ]_vars

\* A PATCH just wrote new notas on a confirmed payment, and the save moved
\* its factura, now past due, to vencida.
C27_Testigo ==
    /\ ultima.op = "actualizar"
    /\ ultima.res = "ok"
    /\ ultima.pago.estado = "confirmado"
    /\ ultima.pago.notas = 0
    /\ ultima.n = 1
    /\ BagIn([ultima.pago EXCEPT !.notas = 1], pagos)
    /\ facturas[ultima.pago.factura].estado = "vencida"

\* C24: when the sweep finishes the recomputation of a factura, whatever
\* confirmations and deletions were served in between, the stored estado of
\* that factura is the one determine_status gives for its confirmed
\* payments and its fecha_vencimiento.
C24_BarridoConcurrente ==
    [][ ultima'.op = "barrido_factura"
        => LET f == ultima'.pago.factura
           IN  facturas'[f].estado = determine_status(facturas', pagos', f, hoy') ]_vars

\* No request of SpecAlertas leaves a row in the Alerta table: both
\* generators end in Alerta_objects_create.
SinAlertas == alertas = << >>

\* Under SpecAlertas the sweep and the confirmations do reach the handlers:
\* a factura is saved as vencida, and another one becomes pagada.
SinAlertas_Testigo ==
    /\ \E f \in FacturaIds : facturas[f].estado = "vencida"
    /\ \E f \in FacturaIds : facturas[f].estado = "pagada"
    /\ ultima.op = "procesar_alertas" /\ ultima.res = "TypeError"

====
